---- MODULE Spec2Model ----
(***************************************************************************)
(* A model of the CIDLC package generator (PackGenerator: Generate,        *)
(* EmitFile, genFileBody, the per-member emitters, forEachField and        *)
(* GenTypeName) and of the graphgen dependency listener (OnNewObject,      *)
(* OnAssignProperty).                                                      *)
(*                                                                         *)
(* Text is modelled as a sequence of lines (each line a string without its *)
(* terminating newline; "" is a blank line).  File paths are sequences of  *)
(* tokens: name parts, "/" and "." (a path component ".." is one token).   *)
(***************************************************************************)
EXTENDS Integers, Sequences, FiniteSets, TLC

VARIABLES
    pkg,      \* the *Package handed to Generate
    pg,       \* the PackGenerator's fields
    pc,       \* position of the running operation
    todo,     \* Generate: keys of pkg.Files the range loop has not visited yet
    frame,    \* locals of the running Generate / EmitFile activation
    fs,       \* the output tree: rendered path -> what was written there
    errs,     \* environment failures that have occurred so far (op, path)
    result,   \* what Generate returned ("none" while it has not)
    bodyIn,   \* genFileBody: the members argument
    bodyOut,  \* genFileBody: buffer, generator fields and abort reason afterwards
    flatIn,   \* forEachField: the TypeMember argument
    flatOut,  \* forEachField: the action's invocations and the returned count
    heap,     \* interpreter: object -> property -> value currently held
    res,      \* generator.res: the dependsSet
    failed    \* graphgen: the contract assertion or map write that failed ("" if none)

vars == <<pkg, pg, pc, todo, frame, fs, errs, result, bodyIn, bodyOut, flatIn, flatOut, heap, res, failed>>

genVars == <<pkg, pg, todo, frame, fs, errs, result>>
bodyVars == <<bodyIn, bodyOut>>
flatVars == <<flatIn, flatOut>>
graphVars == <<heap, res, failed>>

----------------------------------------------------------------------------
(* Bounds of the model.                                                    *)

\* members per file of a package handed to Generate
MaxMembers == 2
\* length of a member sequence handed to genFileBody
MaxBody == 4
\* fields (anonymous or not) in the whole embedding tree of a drawn TypeMember
MaxNodes == 4
\* fields in the embedding tree of a drawn Resource (its options are drawn too)
MaxResNodes == 3
\* values of a drawn Enum
MaxValues == 3

----------------------------------------------------------------------------
(* Small helpers.                                                          *)

Range(s) == {s[i] : i \in DOMAIN s}

\* all the orders in which a Go map range may visit the key set S
Orders(S) == {s \in [1..Cardinality(S) -> S] : \A i, j \in 1..Cardinality(S) : s[i] = s[j] => i = j}

\* all the sequences without repetition of at most n elements of S
RECURSIVE DistinctSeqs(_, _)
DistinctSeqs(S, n) == IF n = 0 THEN {<<>>} ELSE {<<>>} \cup UNION {{<<x>> \o r : r \in DistinctSeqs(S \ {x}, n - 1)} : x \in S}

RECURSIVE SeqsUpTo(_, _)
SeqsUpTo(S, n) == IF n = 0 THEN {<<>>} ELSE {<<>>} \cup {<<x>> \o r : x \in S, r \in SeqsUpTo(S, n - 1)}

RECURSIVE ConcatAll(_)
ConcatAll(ss) == IF ss = <<>> THEN <<>> ELSE Head(ss) \o ConcatAll(Tail(ss))

EmptyMap == [x \in {} |-> ""]

MapPut(m, k, v) == [x \in DOMAIN m \cup {k} |-> IF x = k THEN v ELSE m[x]]

----------------------------------------------------------------------------
(* Paths (strings, path/filepath).                                         *)

\* strings.LastIndex(s, tok), 1-based; 0 where Go returns -1
LastIndex(p, tok) == IF \E i \in DOMAIN p : p[i] = tok THEN CHOOSE i \in DOMAIN p : p[i] = tok /\ \A j \in DOMAIN p : p[j] = tok => j <= i ELSE 0

RECURSIVE Render(_)
Render(p) == IF p = <<>> THEN "" ELSE Head(p) \o Render(Tail(p))

\* the components of a clean relative path
RECURSIVE Components(_)
Components(p) ==
    LET i == IF \E k \in DOMAIN p : p[k] = "/" THEN CHOOSE k \in DOMAIN p : p[k] = "/" /\ \A j \in DOMAIN p : p[j] = "/" => k <= j ELSE 0
    IN  IF p = <<>> \/ p = <<".">> THEN <<>>
        ELSE IF i = 0 THEN <<p>>
        ELSE <<SubSeq(p, 1, i - 1)>> \o Components(SubSeq(p, i + 1, Len(p)))

RECURSIVE JoinComponents(_)
JoinComponents(cs) == IF cs = <<>> THEN <<".">> ELSE IF Len(cs) = 1 THEN cs[1] ELSE cs[1] \o <<"/">> \o JoinComponents(Tail(cs))

\* filepath.Join of two clean relative paths
Join(a, b) == JoinComponents(Components(a) \o Components(b))

\* filepath.Dir
Dir(p) == LET i == LastIndex(p, "/") IN IF i = 0 THEN <<".">> ELSE SubSeq(p, 1, i - 1)

\* filepath.Ext: the suffix of the last component from its last dot on
Ext(p) ==
    LET s == LastIndex(p, "/")
        d == LastIndex(p, ".")
    IN  IF d > s THEN SubSeq(p, d, Len(p)) ELSE <<>>

RECURSIVE CommonPrefix(_, _)
CommonPrefix(a, b) == IF a = <<>> \/ b = <<>> \/ Head(a) # Head(b) THEN 0 ELSE 1 + CommonPrefix(Tail(a), Tail(b))

\* filepath.Rel of two clean relative paths without ".." components (it cannot fail on these)
Rel(base, targ) ==
    LET bc == Components(base)
        tc == Components(targ)
        c == CommonPrefix(bc, tc)
    IN  JoinComponents([i \in 1..(Len(bc) - c) |-> <<"..">>] \o SubSeq(tc, c + 1, Len(tc)))

\* PackGenerator.Out
OutDir == <<"out">>

----------------------------------------------------------------------------
(* go/types shapes, PropertyOptions and members.                           *)

Basic(k) == [t |-> "Basic", kind |-> k]
Named(p, n) == [t |-> "Named", pkg |-> p, name |-> n]
MapOf(k, e) == [t |-> "Map", key |-> k, elem |-> e]
Pointer(e) == [t |-> "Pointer", elem |-> e]
Slice(e) == [t |-> "Slice", elem |-> e]
Chan(e) == [t |-> "Chan", elem |-> e]

\* the *types.Package of the package being generated, and a foreign one
ThisPkg == [path |-> "example/idl", name |-> "idl"]
AwsPkg == [path |-> "example/aws", name |-> "aws"]

Field(n, ty) == [anon |-> FALSE, name |-> n, type |-> ty]
Embed(s) == [anon |-> TRUE, embedded |-> s]
Opt(n, optional, out, replaces) == [Name |-> n, Optional |-> optional, Out |-> out, Replaces |-> replaces]

Alias(n, target) == [kind |-> "Alias", name |-> n, Target |-> target]
Const(n, ty, v) == [kind |-> "Const", name |-> n, Type |-> ty, Value |-> v]
Enum(n, vs) == [kind |-> "Enum", name |-> n, Values |-> vs]
Struct(n, s, os) == [kind |-> "Struct", name |-> n, struct |-> s, opts |-> os]
Resource(n, s, os) == [kind |-> "Resource", name |-> n, struct |-> s, opts |-> os]

----------------------------------------------------------------------------
(* forEachField / forEachStructField.                                      *)
(* The callback is modelled by the sequence of its invocations, in order:  *)
(* each entry is the (fld, opt) pair the action was called with.  panic    *)
(* is Go's index/slice out-of-range panic on opts.                         *)

\* the mutation of AdvanceCursor that counts an embedded struct as one option
AdvanceCursorByOne(j, k) == j + 1

\* j += k: the caller's cursor skips the k options the embedded struct consumed
AdvanceCursor(j, k) == j + k

RECURSIVE forEachStructField(_, _)
RECURSIVE forEachStructFieldLoop(_, _, _, _, _, _)
forEachStructFieldLoop(s, opts, i, j, n, calls) ==
    IF i > Len(s) THEN [n |-> n, calls |-> calls, panic |-> FALSE]
    ELSE IF s[i].anon
    THEN IF j > Len(opts) THEN [n |-> n, calls |-> calls, panic |-> TRUE]
         ELSE LET r == forEachStructField(s[i].embedded, SubSeq(opts, j + 1, Len(opts)))
              IN  IF r.panic THEN [n |-> n, calls |-> calls \o r.calls, panic |-> TRUE]
                  ELSE forEachStructFieldLoop(s, opts, i + 1, AdvanceCursor(j, r.n), n + r.n, calls \o r.calls)
    ELSE IF j >= Len(opts) THEN [n |-> n, calls |-> calls, panic |-> TRUE]
         ELSE forEachStructFieldLoop(s, opts, i + 1, j + 1, n + 1, Append(calls, [fld |-> s[i], opt |-> opts[j + 1]]))

forEachStructField(s, opts) == forEachStructFieldLoop(s, opts, 1, 0, 0, <<>>)

forEachField(t) == forEachStructField(t.struct, t.opts)

----------------------------------------------------------------------------
(* GenTypeName and registerForeign.  g is the generator (the pg fields);   *)
(* the result carries the text, the generator afterwards and the reason of *)
(* a contract failure ("" if none).                                        *)

registerForeign(p, g) ==
    IF p.path \in DOMAIN g.Ffimp.m THEN [name |-> g.Ffimp.m[p.path], pg |-> g]
    ELSE [name |-> p.name, pg |-> [g EXCEPT !.Ffimp.m = MapPut(@, p.path, p.name)]]

\* the mutation of RecordLocalImport that also imports names of the current file
RecordLocalImportAlways(name, g) == [g EXCEPT !.Flimp.keys = @ \cup {name}]

\* pg.Flimp[name] = true when the member's home file is not the current file
RecordLocalImport(name, g) == IF g.Currpkg.MemberFiles[name] # g.Currfile THEN [g EXCEPT !.Flimp.keys = @ \cup {name}] ELSE g

RECURSIVE GenTypeName(_, _)
GenTypeName(t, g) ==
    CASE t.t = "Basic" ->
            IF t.kind = "Bool" THEN [text |-> "boolean", pg |-> g, fatal |-> ""]
            ELSE IF t.kind = "String" THEN [text |-> "string", pg |-> g, fatal |-> ""]
            ELSE IF t.kind = "Float64" THEN [text |-> "number", pg |-> g, fatal |-> ""]
            ELSE [text |-> "", pg |-> g, fatal |-> "Unrecognized GenTypeName basic type"]
      [] t.t = "Named" ->
            IF t.pkg = g.Currpkg.Pkg
            THEN [text |-> t.name, pg |-> RecordLocalImport(t.name, g), fatal |-> ""]
            ELSE LET r == registerForeign(t.pkg, g)
                 IN  [text |-> r.name \o "." \o t.name, pg |-> r.pg, fatal |-> ""]
      [] t.t = "Map" ->
            LET k == GenTypeName(t.key, g)
                e == GenTypeName(t.elem, k.pg)
            IN  IF k.fatal # "" THEN k
                ELSE IF e.fatal # "" THEN e
                ELSE [text |-> "{[key: " \o k.text \o "]: " \o e.text \o "}", pg |-> e.pg, fatal |-> ""]
      [] t.t = "Pointer" -> GenTypeName(t.elem, g)
      [] t.t = "Slice" ->
            LET e == GenTypeName(t.elem, g)
            IN  IF e.fatal # "" THEN e ELSE [text |-> e.text \o "[]", pg |-> e.pg, fatal |-> ""]
      [] OTHER -> [text |-> "", pg |-> g, fatal |-> "Unrecognized GenTypeName type"]

----------------------------------------------------------------------------
(* The emitters.  em is the emission in progress: the lines written to the *)
(* buffer so far, the generator, and the reason of a contract failure.  A  *)
(* contract failure aborts the run: every later write and call leaves em   *)
(* as the failure left it.                                                 *)

\* writefmt of one whole line
W(em, line) == IF em.fatal # "" THEN em ELSE [em EXCEPT !.lines = Append(@, line)]

\* writefmt of pre, a mapped type r and post as one line
WriteTyped(em, r, pre, post) ==
    IF em.fatal # "" THEN em
    ELSE IF r.fatal # "" THEN [em EXCEPT !.pg = r.pg, !.fatal = r.fatal]
    ELSE [em EXCEPT !.lines = Append(@, pre \o r.text \o post), !.pg = r.pg]

EmitAlias(em, alias) == WriteTyped(em, GenTypeName(alias.Target, em.pg), "export type " \o alias.name \o " = ", ";")

EmitConst(em, konst) == WriteTyped(em, GenTypeName(konst.Type, em.pg), "export let " \o konst.name \o ": ", " = " \o konst.Value \o ";")

\* the text written for one enum value: "    %v" of the value
EnumValueText(value) == "    " \o value

\* the value lines: " |" and a newline before every value but the first, ";" after the last
EnumValueLines(values) == [i \in 1..Len(values) |-> EnumValueText(values[i]) \o (IF i < Len(values) THEN " |" ELSE ";")]

EmitEnum(em, enum) ==
    IF em.fatal # "" THEN em
    ELSE IF Len(enum.Values) = 0
    THEN [em EXCEPT !.lines = Append(@, "export type " \o enum.name \o " ="), !.fatal = "Assert: len(enum.Values) > 0"]
    ELSE [em EXCEPT !.lines = Append(@, "export type " \o enum.name \o " =") \o EnumValueLines(enum.Values)]

emitField(em, fld, opt, prefix) ==
    WriteTyped(em, GenTypeName(fld.type, em.pg),
               prefix \o (IF opt.Replaces THEN "readonly " ELSE "") \o opt.Name \o (IF opt.Optional THEN "?" ELSE "") \o ": ", ";")

\* the mutation of ClassFieldAction that skips output properties
ClassFieldActionSkipOut(em, call) == IF call.opt.Out THEN em ELSE emitField(em, call.fld, call.opt, "    public ")

\* the action emitResourceClass passes to forEachField for the field definitions
ClassFieldAction(em, call) == emitField(em, call.fld, call.opt, "    public ")

GuardLines(name) == << "        if (args." \o name \o " === undefined) {",
                       "            throw new Error(\"Missing required argument '" \o name \o "'\");",
                       "        }" >>

AssignLine(name) == "        this." \o name \o " = args." \o name \o ";"

\* the mutation of CtorFieldLines that guards optional arguments too
CtorFieldLinesGuardAll(opt) == IF ~opt.Out THEN GuardLines(opt.Name) \o <<AssignLine(opt.Name)>> ELSE <<>>

\* what the constructor action writes for one field
CtorFieldLines(opt) ==
    IF ~opt.Out
    THEN (IF ~opt.Optional THEN GuardLines(opt.Name) ELSE <<>>) \o <<AssignLine(opt.Name)>>
    ELSE <<>>

\* the action emitResourceClass passes to forEachField for the constructor
CtorFieldAction(em, call) == IF em.fatal # "" THEN em ELSE [em EXCEPT !.lines = @ \o CtorFieldLines(call.opt)]

\* the action emitStructType passes to forEachField
StructFieldAction(em, call) == IF ~call.opt.Out THEN emitField(em, call.fld, call.opt, "    ") ELSE em

\* run the invocations of an action in order
RECURSIVE RunClassFields(_, _)
RunClassFields(em, calls) == IF calls = <<>> THEN em ELSE RunClassFields(ClassFieldAction(em, Head(calls)), Tail(calls))

RECURSIVE RunCtorFields(_, _)
RunCtorFields(em, calls) == IF calls = <<>> THEN em ELSE RunCtorFields(CtorFieldAction(em, Head(calls)), Tail(calls))

RECURSIVE RunStructFields(_, _)
RunStructFields(em, calls) == IF calls = <<>> THEN em ELSE RunStructFields(StructFieldAction(em, Head(calls)), Tail(calls))

\* a walk in which forEachStructField itself panics, after the calls it made
Walked(em, r) == IF em.fatal = "" /\ r.panic THEN [em EXCEPT !.fatal = "panic: index out of range"] ELSE em

\* emitStructType, r being forEachField's walk of t
emitStructTypeWalk(em, name, r) == W(Walked(RunStructFields(W(em, "export interface " \o name \o " {"), r.calls), r), "}")

emitStructType(em, t, name) == emitStructTypeWalk(em, name, forEachField(t))

\* the field definitions, and a blank line after them if there is any field
ClassFields(em, r) == IF r.n > 0 THEN W(Walked(RunClassFields(em, r.calls), r), "") ELSE Walked(RunClassFields(em, r.calls), r)

\* emitResourceClass, r being forEachField's walk of the resource (both walks are the same)
emitResourceClassWalk(em, name, r) ==
    W(W(Walked(RunCtorFields(W(W(ClassFields(W(em, "export class " \o name \o " extends coconut.Resource implements " \o name \o "Args {"), r),
                                 "    constructor(args: " \o name \o "Args) {"),
                               "        super();"),
                             r.calls), r),
        "    }"),
      "}")

emitResourceClass(em, rsc) == emitResourceClassWalk(em, rsc.name, forEachField(rsc))

EmitStruct(em, s) == emitStructType(em, s, s.name)

\* pg.Fhadres = true
HadResource(em) == IF em.fatal # "" THEN em ELSE [em EXCEPT !.pg.Fhadres = TRUE]

EmitResource(em, rsc) == HadResource(emitStructType(W(emitResourceClass(em, rsc), ""), rsc, rsc.name \o "Args"))

----------------------------------------------------------------------------
(* genFileBody.                                                            *)

\* the mutation of NeedsBlank that forgets to compare the two members' kinds
NeedsBlankKindOnly(prev, m) == m.kind # "Alias" /\ m.kind # "Const"

\* (!isalias && !isconst) || reflect.TypeOf(m) != reflect.TypeOf(members[i-1])
NeedsBlank(prev, m) == (m.kind # "Alias" /\ m.kind # "Const") \/ m.kind # prev.kind

\* the line break written before member i when i > 0
Separated(em, members, i) == IF i > 1 /\ NeedsBlank(members[i - 1], members[i]) THEN W(em, "") ELSE em

EmitMember(em, m) ==
    CASE m.kind = "Alias" -> EmitAlias(em, m)
      [] m.kind = "Const" -> EmitConst(em, m)
      [] m.kind = "Enum" -> EmitEnum(em, m)
      [] m.kind = "Resource" -> EmitResource(em, m)
      [] m.kind = "Struct" -> EmitStruct(em, m)
      [] OTHER -> IF em.fatal # "" THEN em ELSE [em EXCEPT !.fatal = "Unrecognized package member type"]

RECURSIVE genFileBodyLoop(_, _, _)
genFileBodyLoop(em, members, i) ==
    IF i > Len(members) THEN em
    ELSE genFileBodyLoop(EmitMember(Separated(em, members, i), members[i]), members, i + 1)

\* the buffer, the generator afterwards, and the contract failure that cut it short
genFileBody(members, g) == W(genFileBodyLoop([lines |-> <<>>, pg |-> g, fatal |-> ""], members, 1), "")

----------------------------------------------------------------------------
(* The generator's fields, EmitFile and emitFileContents.                  *)

\* a nil map[string]string / map[string]bool, and what make() returns
NilMap == [nil |-> TRUE, m |-> EmptyMap]
MadeMap == [nil |-> FALSE, m |-> EmptyMap]
NilSet == [nil |-> TRUE, keys |-> {}]
MadeSet == [nil |-> FALSE, keys |-> {}]

\* a nil *Package
NilPkg == [nil |-> TRUE, Pkg |-> [path |-> "", name |-> ""], Files |-> EmptyMap, MemberFiles |-> EmptyMap]

\* NewPackGenerator: Root and Out set, every other field its zero value
NewPackGenerator == [Currpkg |-> NilPkg, Currfile |-> <<>>, Fhadres |-> FALSE, Ffimp |-> NilMap, Flimp |-> NilSet]

\* pg.Fhadres, pg.Ffimp, pg.Flimp = false, make(...), make(...)
EmitFileEnter(g) == [g EXCEPT !.Fhadres = FALSE, !.Ffimp = MadeMap, !.Flimp = MadeSet]

\* the mutation of EmitFileLeave that forgets the deferred restore
EmitFileLeaveNoRestore(g, fr) == g

\* EmitFile's deferred function
EmitFileLeave(g, fr) == [g EXCEPT !.Fhadres = fr.oldhadres, !.Ffimp = fr.oldffimp, !.Flimp = fr.oldflimp]

\* Generate's deferred function
GenerateLeave(g, fr) == [g EXCEPT !.Currpkg = fr.oldpkg, !.Currfile = fr.oldfile]

Banner == << "// *** WARNING: this file was generated by the Coconut IDL Compiler (CIDLC).  ***",
             "// *** Do not edit by hand unless you are taking matters into your own hands! ***",
             "" >>

CoconutImport == "import * as coconut from \"@coconut/coconut\";"

ForeignFatal == "Foreign imports not yet supported"

\* the output is TypeScript: the text from the last dot on is replaced by ".ts"
TsFile(file) == (IF LastIndex(file, ".") # 0 THEN SubSeq(file, 1, LastIndex(file, ".") - 1) ELSE file) \o <<".", "ts">>

\* the relative module name a local import is written with
ImportName(file, local, g) ==
    LET dir == Dir(file)
        module == g.Currpkg.MemberFiles[local]
        relimp == Rel(dir, Join(OutDir, module))
        impname == IF Head(relimp) \in {".", ".."} THEN relimp ELSE <<".", "/">> \o relimp
    IN  IF Ext(impname) # <<>> THEN SubSeq(impname, 1, LastIndex(impname, ".") - 1) ELSE impname

LocalImportLine(local, impname) == "import {" \o local \o "} from \"" \o Render(impname) \o "\";"

\* the mutation of ForeignImports that drops the foreign imports silently
ForeignImportsDropped(g) == ""

\* the loop over pg.Ffimp: its first iteration fails the contract
ForeignImports(g) == IF g.Ffimp.m # EmptyMap THEN ForeignFatal ELSE ""

\* order is the order in which the range over pg.Flimp visits its keys; openOK and
\* flushOK are what os.OpenFile and w.Flush meet in the environment.
emitFileContents(file, body, g, order, openOK, flushOK) ==
    LET ts == TsFile(file)
        hadres == IF g.Fhadres THEN <<CoconutImport, "">> ELSE <<>>
        limp == IF g.Flimp.keys # {}
                THEN [i \in 1..Len(order) |-> LocalImportLine(order[i], ImportName(ts, order[i], g))] \o <<"">>
                ELSE <<>>
        fimp == IF g.Ffimp.m # EmptyMap THEN <<"">> ELSE <<>>
    IN  IF ~openOK THEN [file |-> ts, opened |-> FALSE, err |-> "open", fatal |-> "", lines |-> <<>>]
        ELSE IF ForeignImports(g) # "" THEN [file |-> ts, opened |-> TRUE, err |-> "", fatal |-> ForeignImports(g), lines |-> <<>>]
        ELSE IF ~flushOK THEN [file |-> ts, opened |-> TRUE, err |-> "write", fatal |-> "", lines |-> <<>>]
        ELSE [file |-> ts, opened |-> TRUE, err |-> "", fatal |-> "", lines |-> Banner \o hadres \o limp \o fimp \o body \o <<"">>]

----------------------------------------------------------------------------
(* Generate, step by step.                                                 *)

NoFrame == [oldpkg |-> NilPkg, oldfile |-> <<>>, path |-> <<>>, body |-> <<>>, fatal |-> "",
            oldhadres |-> FALSE, oldffimp |-> NilMap, oldflimp |-> NilSet]

\* the members of a file in the order of its MemberKeys
MembersOf(file) == [i \in 1..Len(file.MemberKeys) |-> file.Members[file.MemberKeys[i]]]

\* Generate is entered: the context is installed and the range over pkg.Files starts
GenerateBegin ==
    /\ pc = "idle"
    /\ frame' = [frame EXCEPT !.oldpkg = pg.Currpkg, !.oldfile = pg.Currfile]
    /\ pg' = [pg EXCEPT !.Currpkg = pkg]
    /\ todo' = DOMAIN pkg.Files
    /\ pc' = "range"
    /\ UNCHANGED <<pkg, fs, errs, result, bodyVars, flatVars, graphVars>>

\* one iteration of the range loop up to the end of genFileBody: EnsureDir (its
\* error dropped), the member list, Currfile, EmitFile's context and the body
GenerateIter(relpath, mkdirOK) ==
    /\ pc = "range"
    /\ relpath \in todo
    /\ \E path \in {Join(OutDir, relpath)}, g0 \in {[pg EXCEPT !.Currfile = relpath]} :
       \E b \in {genFileBody(MembersOf(pkg.Files[relpath]), EmitFileEnter(g0))} :
           /\ fs' = IF mkdirOK THEN [fs EXCEPT !.dirs = @ \cup {Render(Dir(path))}] ELSE fs
           /\ errs' = IF mkdirOK THEN errs ELSE errs \cup {[op |-> "EnsureDir", path |-> Render(path)]}
           /\ frame' = [frame EXCEPT !.path = path, !.body = b.lines, !.fatal = b.fatal,
                                     !.oldhadres = g0.Fhadres, !.oldffimp = g0.Ffimp, !.oldflimp = g0.Flimp]
           /\ pg' = b.pg
           /\ pc' = IF b.fatal # "" THEN "panicking" ELSE "contents"
    /\ todo' = todo \ {relpath}
    /\ UNCHANGED <<pkg, result, bodyVars, flatVars, graphVars>>

\* emitFileContents and EmitFile's return (its error dropped by Generate)
EmitFileContentsStep(order, openOK, flushOK) ==
    /\ pc = "contents"
    /\ order \in Orders(pg.Flimp.keys)
    /\ openOK => Render(Dir(frame.path)) \in fs.dirs
    /\ flushOK \/ openOK
    /\ \E r \in {emitFileContents(frame.path, frame.body, pg, order, openOK, flushOK)} :
       \E name \in {Render(r.file)} :
           /\ fs' = IF r.opened THEN [fs EXCEPT !.files = MapPut(@, name, [complete |-> r.err = "" /\ r.fatal = "", lines |-> r.lines])] ELSE fs
           /\ errs' = IF r.err # "" THEN errs \cup {[op |-> r.err, path |-> name]} ELSE errs
           /\ IF r.fatal # ""
              THEN /\ frame' = [frame EXCEPT !.fatal = r.fatal]
                   /\ pg' = pg
                   /\ pc' = "panicking"
              ELSE /\ frame' = frame
                   /\ pg' = EmitFileLeave(pg, frame)
                   /\ pc' = "range"
    /\ UNCHANGED <<pkg, todo, result, bodyVars, flatVars, graphVars>>

\* a contract failure unwinds: the deferred functions of EmitFile and Generate run
Unwind ==
    /\ pc = "panicking"
    /\ pg' = GenerateLeave(EmitFileLeave(pg, frame), frame)
    /\ result' = frame.fatal
    /\ pc' = "aborted"
    /\ UNCHANGED <<pkg, todo, frame, fs, errs, bodyVars, flatVars, graphVars>>

\* the range is exhausted: return nil
GenerateReturn ==
    /\ pc = "range"
    /\ todo = {}
    /\ pg' = GenerateLeave(pg, frame)
    /\ result' = "nil"
    /\ pc' = "returned"
    /\ UNCHANGED <<pkg, todo, frame, fs, errs, bodyVars, flatVars, graphVars>>

----------------------------------------------------------------------------
(* The packages, members and structs the model draws its inputs from.      *)

TString == Basic("String")
LocalType(n) == Named(ThisPkg, n)

PoolMember(n) ==
    CASE n = "Id" -> Alias("Id", TString)
      [] n = "Tags" -> Alias("Tags", MapOf(TString, Slice(Pointer(LocalType("Id")))))
      [] n = "Kind" -> Enum("Kind", <<"Red", "Green", "Blue">>)
      [] n = "Limit" -> Const("Limit", Basic("Float64"), "42")
      [] n = "Label" -> Const("Label", LocalType("Id"), "\"x\"")
      [] n = "Count" -> Const("Count", Basic("Bool"), "true")
      [] n = "Info" -> Struct("Info",
                              <<Field("name", TString), Embed(<<Field("kind", LocalType("Kind"))>>), Field("ids", Slice(LocalType("Id")))>>,
                              <<Opt("name", FALSE, FALSE, FALSE), Opt("kind", TRUE, TRUE, FALSE), Opt("ids", TRUE, FALSE, TRUE)>>)
      [] n = "Bucket" -> Resource("Bucket",
                              <<Field("name", TString), Embed(<<Field("region", LocalType("Kind")), Embed(<<Field("id", LocalType("Id"))>>)>>), Field("owner", Pointer(LocalType("Id")))>>,
                              <<Opt("name", FALSE, FALSE, TRUE), Opt("region", TRUE, FALSE, FALSE), Opt("id", FALSE, TRUE, FALSE), Opt("owner", TRUE, FALSE, FALSE)>>)
      [] n = "Region" -> Alias("Region", Slice(Named(AwsPkg, "Region")))
      [] n = "Empty" -> Enum("Empty", <<>>)

\* the member names packages handed to Generate are made of
GenPool == {"Id", "Kind", "Limit", "Info", "Bucket", "Region", "Empty"}

\* the member names sequences handed to genFileBody are made of
BodyPool == {"Id", "Tags", "Kind", "Limit", "Label", "Count", "Info", "Bucket"}

\* the source files of a package
FileA == <<"a", ".", "go">>
FileB == <<"sub", "/", "b", ".", "go">>
FilePaths == {FileA, FileB}

\* the names of this package a type mentions
RECURSIVE LocalNames(_)
LocalNames(t) ==
    CASE t.t = "Named" -> IF t.pkg = ThisPkg THEN {t.name} ELSE {}
      [] t.t = "Map" -> LocalNames(t.key) \cup LocalNames(t.elem)
      [] t.t \in {"Pointer", "Slice", "Chan"} -> LocalNames(t.elem)
      [] OTHER -> {}

\* the leaf fields of a struct, embedded ones included, in declaration order
RECURSIVE Leaves(_)
Leaves(s) == IF s = <<>> THEN <<>> ELSE (IF Head(s).anon THEN Leaves(Head(s).embedded) ELSE <<Head(s)>>) \o Leaves(Tail(s))

\* every type a member mentions
MemberTypes(m) ==
    CASE m.kind = "Alias" -> {m.Target}
      [] m.kind = "Const" -> {m.Type}
      [] m.kind \in {"Struct", "Resource"} -> {f.type : f \in Range(Leaves(m.struct))}
      [] OTHER -> {}

MemberRefs(m) == UNION {LocalNames(t) : t \in MemberTypes(m)}

\* a *Package whose files hold the named pool members: a maps each file to its MemberKeys
MkPackage(a) ==
    [nil |-> FALSE,
     Pkg |-> ThisPkg,
     Files |-> [f \in DOMAIN a |-> [MemberKeys |-> a[f], Members |-> [n \in Range(a[f]) |-> PoolMember(n)]]],
     MemberFiles |-> [n \in UNION {Range(a[f]) : f \in DOMAIN a} |-> CHOOSE f \in DOMAIN a : n \in Range(a[f])]]

\* the loader's guarantees: a member lives in one file, and every local name resolves
WellFormed(a) ==
    LET names == UNION {Range(a[f]) : f \in DOMAIN a}
    IN  /\ \A f1, f2 \in DOMAIN a : f1 # f2 => Range(a[f1]) \cap Range(a[f2]) = {}
        /\ \A n \in names : MemberRefs(PoolMember(n)) \subseteq names

Packages(n) == {MkPackage(a) : a \in {x \in [FilePaths -> DistinctSeqs(GenPool, n)] : WellFormed(x)}}

\* struct shapes with exactly n fields in the whole embedding tree
RECURSIVE Shapes(_)
Shapes(n) ==
    IF n = 0 THEN {<<>>}
    ELSE {<<Field("", TString)>> \o r : r \in Shapes(n - 1)}
         \cup UNION {{<<Embed(e)>> \o r : e \in Shapes(k), r \in Shapes(n - 1 - k)} : k \in 0..(n - 1)}

\* a shape with every leaf named after its position in the tree
RECURSIVE Labelled(_, _)
Labelled(s, prefix) ==
    [i \in 1..Len(s) |-> IF s[i].anon THEN Embed(Labelled(s[i].embedded, prefix \o ToString(i) \o "_"))
                         ELSE Field(prefix \o ToString(i), TString)]

StructsUpTo(n) == UNION {{Labelled(s, "x") : s \in Shapes(k)} : k \in 0..n}

Flags == [Optional : BOOLEAN, Out : BOOLEAN, Replaces : BOOLEAN]

\* one option per leaf, named f1, f2, ... in order
OptionsFor(fl) == [p \in 1..Len(fl) |-> Opt("f" \o ToString(p), fl[p].Optional, fl[p].Out, fl[p].Replaces)]

PlainOptions(n) == [p \in 1..n |-> Opt("f" \o ToString(p), FALSE, FALSE, FALSE)]

DrawnTypeMembers(n) == {Struct("T", s, PlainOptions(Len(Leaves(s)))) : s \in StructsUpTo(n)}

DrawnResources(n) == UNION {{Resource("Thing", s, OptionsFor(fl)) : fl \in [1..Len(Leaves(s)) -> Flags]} : s \in StructsUpTo(n)}

DrawnEnums(n) == {Enum("Color", vs) : vs \in SeqsUpTo({"Red", "Green", "Blue"}, n)}

\* the package genFileBody runs in: the given members in a.go, the rest of the pool in sub/b.go
BodyPackage(members) ==
    [nil |-> FALSE,
     Pkg |-> ThisPkg,
     Files |-> EmptyMap,
     MemberFiles |-> [n \in BodyPool \cup {m.name : m \in Range(members)} |-> IF \E m \in Range(members) : m.name = n THEN FileA ELSE FileB]]

BodyInputs(n) == {[i \in 1..Len(ns) |-> PoolMember(ns[i])] : ns \in DistinctSeqs(BodyPool, n)}
                 \cup {<<m>> : m \in DrawnResources(MaxResNodes) \cup DrawnEnums(MaxValues)}

NoEmission == [lines |-> <<>>, pg |-> NewPackGenerator, fatal |-> ""]
NoWalk == [n |-> 0, calls |-> <<>>, panic |-> FALSE]
NoFs == [dirs |-> {}, files |-> EmptyMap]

----------------------------------------------------------------------------
(* Generate over a package: Spec.                                          *)

Init ==
    /\ pkg \in Packages(MaxMembers) /\ pg = NewPackGenerator /\ todo = {} /\ frame = NoFrame
    /\ fs = NoFs /\ errs = {} /\ result = "none"
    /\ pc = "idle"
    /\ bodyIn = <<>> /\ bodyOut = NoEmission
    /\ flatIn = Struct("T", <<>>, <<>>) /\ flatOut = NoWalk
    /\ heap = EmptyMap /\ res = EmptyMap /\ failed = ""

Next ==
    \/ GenerateBegin
    \/ \E relpath \in FilePaths, mkdirOK \in BOOLEAN : GenerateIter(relpath, mkdirOK)
    \/ \E order \in Orders(pg.Flimp.keys), openOK \in BOOLEAN, flushOK \in BOOLEAN : EmitFileContentsStep(order, openOK, flushOK)
    \/ Unwind
    \/ GenerateReturn

Spec == Init /\ [][Next]_vars

----------------------------------------------------------------------------
(* genFileBody over a member sequence: SpecBody.                           *)

\* the generator as EmitFile hands it to genFileBody for a.go of the members' package
BodyGenerator(members) == EmitFileEnter([NewPackGenerator EXCEPT !.Currpkg = BodyPackage(members), !.Currfile = FileA])

GenFileBodyStep ==
    /\ pc = "body"
    /\ bodyOut' = genFileBody(bodyIn, BodyGenerator(bodyIn))
    /\ pc' = "body-done"
    /\ UNCHANGED <<genVars, bodyIn, flatVars, graphVars>>

InitBody ==
    /\ pkg = NilPkg /\ pg = NewPackGenerator /\ todo = {} /\ frame = NoFrame
    /\ fs = NoFs /\ errs = {} /\ result = "none"
    /\ pc = "body"
    /\ bodyIn \in BodyInputs(MaxBody) /\ bodyOut = NoEmission
    /\ flatIn = Struct("T", <<>>, <<>>) /\ flatOut = NoWalk
    /\ heap = EmptyMap /\ res = EmptyMap /\ failed = ""

NextBody == GenFileBodyStep

SpecBody == InitBody /\ [][NextBody]_vars

----------------------------------------------------------------------------
(* forEachField over a TypeMember: SpecFlat.                               *)

ForEachFieldStep ==
    /\ pc = "flat"
    /\ flatOut' = forEachField(flatIn)
    /\ pc' = "flat-done"
    /\ UNCHANGED <<genVars, bodyVars, flatIn, graphVars>>

InitFlat ==
    /\ pkg = NilPkg /\ pg = NewPackGenerator /\ todo = {} /\ frame = NoFrame
    /\ fs = NoFs /\ errs = {} /\ result = "none"
    /\ pc = "flat"
    /\ bodyIn = <<>> /\ bodyOut = NoEmission
    /\ flatIn \in DrawnTypeMembers(MaxNodes) /\ flatOut = NoWalk
    /\ heap = EmptyMap /\ res = EmptyMap /\ failed = ""

NextFlat == ForEachFieldStep

SpecFlat == InitFlat /\ [][NextFlat]_vars

----------------------------------------------------------------------------
(* The graphgen listener under an interpreter: SpecGraph.                  *)

\* the objects the interpreter may allocate; the first two are subclasses of mu.Resource
ResourceObjects == {"r1", "r2"}
Objects == ResourceObjects \cup {"d1"}
Props == {"p", "q"}
Nil == "nil"

\* types.HasBaseName(o.Type(), predef.MuResourceClass)
IsResource(o) == o \in ResourceObjects

\* the mutation of DropRef that leaves the old resource's count alone
DropRefNever(deps, old) == deps

\* deps[old]--
DropRef(deps, old) == [deps EXCEPT ![old] = @ - 1]

\* deps[nw] = c + 1, or 1 for a new entry
AddRef(deps, nw) == IF nw \in DOMAIN deps THEN [deps EXCEPT ![nw] = @ + 1] ELSE MapPut(deps, nw, 1)

\* OnNewObject: the new dependsSet, and the contract that failed
OnNewObject(g, o) ==
    IF IsResource(o)
    THEN IF o \in DOMAIN g THEN [res |-> g, failed |-> "Unexpected duplicate new object encountered"]
         ELSE [res |-> MapPut(g, o, [x \in {} |-> 0]), failed |-> ""]
    ELSE [res |-> g, failed |-> ""]

\* OnAssignProperty: the new dependsSet, and the contract (or nil-map write) that failed
OnAssignProperty(g, o, prop, old, nw) ==
    IF ~IsResource(o) THEN [res |-> g, failed |-> ""]
    ELSE IF old # Nil /\ IsResource(old) /\ (o \notin DOMAIN g \/ old \notin DOMAIN g[o])
    THEN [res |-> g, failed |-> "Expected old resource property to exist in dependency map"]
    ELSE IF old # Nil /\ IsResource(old) /\ g[o][old] <= 0
    THEN [res |-> g, failed |-> "Expected old resource property ref-count to be > 0 in dependency map"]
    ELSE IF o \notin DOMAIN g
    THEN [res |-> g, failed |-> IF nw # Nil /\ IsResource(nw) THEN "panic: assignment to entry in nil map" ELSE ""]
    ELSE [res |-> [g EXCEPT ![o] = IF nw # Nil /\ IsResource(nw)
                                   THEN AddRef(IF old # Nil /\ IsResource(old) THEN DropRef(@, old) ELSE @, nw)
                                   ELSE IF old # Nil /\ IsResource(old) THEN DropRef(@, old) ELSE @],
          failed |-> ""]

\* the interpreter allocates o and raises OnNewObject
NewObject(o) ==
    /\ pc = "interp"
    /\ failed = ""
    /\ o \notin DOMAIN heap
    /\ heap' = MapPut(heap, o, [x \in Props |-> Nil])
    /\ \E r \in {OnNewObject(res, o)} : res' = r.res /\ failed' = r.failed
    /\ UNCHANGED <<genVars, pc, bodyVars, flatVars>>

\* the interpreter stores nw into o.prop and raises OnAssignProperty with the value it replaces
AssignProperty(o, prop, nw) ==
    /\ pc = "interp"
    /\ failed = ""
    /\ o \in DOMAIN heap
    /\ nw = Nil \/ nw \in DOMAIN heap
    /\ heap' = [heap EXCEPT ![o][prop] = nw]
    /\ \E r \in {OnAssignProperty(res, o, prop, heap[o][prop], nw)} : res' = r.res /\ failed' = r.failed
    /\ UNCHANGED <<genVars, pc, bodyVars, flatVars>>

InitGraph ==
    /\ pkg = NilPkg /\ pg = NewPackGenerator /\ todo = {} /\ frame = NoFrame
    /\ fs = NoFs /\ errs = {} /\ result = "none"
    /\ pc = "interp"
    /\ bodyIn = <<>> /\ bodyOut = NoEmission
    /\ flatIn = Struct("T", <<>>, <<>>) /\ flatOut = NoWalk
    /\ heap = EmptyMap /\ res = EmptyMap /\ failed = ""

NextGraph ==
    \/ \E o \in Objects : NewObject(o)
    \/ \E o \in Objects, prop \in Props, nw \in Objects \cup {Nil} : AssignProperty(o, prop, nw)

SpecGraph == InitGraph /\ [][NextGraph]_vars

----------------------------------------------------------------------------
(* Properties.                                                             *)

\* the flattened fields of a TypeMember as its declaration gives them: the
\* p-th leaf of the embedding tree with the p-th entry of the options
Flattened(t) == [p \in 1..Len(Leaves(t.struct)) |-> [fld |-> Leaves(t.struct)[p], opt |-> t.opts[p]]]

\* index of the first line equal to l (0 if there is none)
FirstIndex(lines, l) == IF \E i \in DOMAIN lines : lines[i] = l THEN CHOOSE i \in DOMAIN lines : lines[i] = l /\ \A j \in DOMAIN lines : lines[j] = l => i <= j ELSE 0

\* genFileBody has run on a single Resource without a contract failure
OneResourceDone == pc = "body-done" /\ Len(bodyIn) = 1 /\ bodyIn[1].kind = "Resource" /\ bodyOut.fatal = ""

\* the lines of the generated constructor between "super();" and its closing brace
CtorBody == SubSeq(bodyOut.lines, FirstIndex(bodyOut.lines, "    constructor(args: " \o bodyIn[1].name \o "Args) {") + 2, FirstIndex(bodyOut.lines, "    }") - 1)

\* the lines of the generated class between its opening line and the constructor
ClassProperties == SelectSeq(SubSeq(bodyOut.lines, 2, FirstIndex(bodyOut.lines, "    constructor(args: " \o bodyIn[1].name \o "Args) {") - 1), LAMBDA l : l # "")

\* ---- C1 ----------------------------------------------------------------
\* C1 (as claimed): when Generate has returned and a directory creation, an
\* open or a write failed for some file, Generate did not return nil.
C1_EnvErrorsReported == (pc = "returned" /\ errs # {}) => result # "nil"

\* ---- C2 ----------------------------------------------------------------
C2_Guard(n) == << "        if (args." \o n \o " === undefined) {", "            throw new Error(\"Missing required argument '" \o n \o "'\");", "        }" >>
C2_Assign(n) == << "        this." \o n \o " = args." \o n \o ";" >>
C2_FieldLines(o) == (IF ~o.Out /\ ~o.Optional THEN C2_Guard(o.Name) ELSE <<>>) \o (IF ~o.Out THEN C2_Assign(o.Name) ELSE <<>>)

\* C2: the constructor body of a Resource is, field by field in flattened
\* order, the guard (iff the field is neither Out nor Optional) immediately
\* followed by the assignment (iff the field is not Out); an Out field
\* contributes no line at all.
C2_ConstructorBody ==
    OneResourceDone => CtorBody = ConcatAll([p \in 1..Len(Flattened(bodyIn[1])) |-> C2_FieldLines(Flattened(bodyIn[1])[p].opt)])

\* a Resource with an embedded struct and a required, an optional and an Out field has been emitted
C2_Witness ==
    /\ OneResourceDone
    /\ \E i \in DOMAIN bodyIn[1].struct : bodyIn[1].struct[i].anon
    /\ \E a, b, c \in DOMAIN bodyIn[1].opts :
          /\ ~bodyIn[1].opts[a].Out /\ ~bodyIn[1].opts[a].Optional
          /\ ~bodyIn[1].opts[b].Out /\ bodyIn[1].opts[b].Optional
          /\ bodyIn[1].opts[c].Out

\* ---- C3 ----------------------------------------------------------------
C3_PropertyLine(f) == "    public " \o (IF f.opt.Replaces THEN "readonly " ELSE "") \o f.opt.Name \o (IF f.opt.Optional THEN "?" ELSE "") \o ": " \o GenTypeName(f.fld.type, BodyGenerator(bodyIn)).text \o ";"
C3_NotOut(f) == ~f.opt.Out

\* C3 (as claimed): the property lines of the class are exactly the non-Out
\* flattened fields, in field order.
C3_OnlyNonOutProperties ==
    OneResourceDone => ClassProperties = [p \in 1..Len(SelectSeq(Flattened(bodyIn[1]), C3_NotOut)) |-> C3_PropertyLine(SelectSeq(Flattened(bodyIn[1]), C3_NotOut)[p])]

\* C3 (amended): the property lines of the class are exactly the flattened
\* fields, Out ones included, in field order, one line each (read-only when
\* Replaces is set).
C3_AllProperties ==
    OneResourceDone => ClassProperties = [p \in 1..Len(Flattened(bodyIn[1])) |-> C3_PropertyLine(Flattened(bodyIn[1])[p])]

\* a Resource with an Out field, a Replaces field and a plain field has been emitted
C3_Witness ==
    /\ OneResourceDone
    /\ \E a, b, c \in DOMAIN bodyIn[1].opts : bodyIn[1].opts[a].Out /\ bodyIn[1].opts[b].Replaces /\ ~bodyIn[1].opts[c].Out /\ ~bodyIn[1].opts[c].Replaces

\* ---- C4 ----------------------------------------------------------------
C4_Quoted(v) == "    \"" \o v \o "\""

\* C4 (as claimed): a single Enum with values v1..vn (n > 0) is emitted as its
\* heading followed by the values in order, each quoted as a string literal,
\* separated by " |" and ended by ";"; with no values it is a fatal error.
C4_EnumQuoted ==
    (pc = "body-done" /\ Len(bodyIn) = 1 /\ bodyIn[1].kind = "Enum") =>
        IF bodyIn[1].Values = <<>> THEN bodyOut.fatal # ""
        ELSE /\ bodyOut.fatal = ""
             /\ bodyOut.lines = <<"export type " \o bodyIn[1].name \o " =">>
                                \o [i \in 1..Len(bodyIn[1].Values) |-> C4_Quoted(bodyIn[1].Values[i]) \o (IF i < Len(bodyIn[1].Values) THEN " |" ELSE ";")]
                                \o <<"">>

\* ---- C5 ----------------------------------------------------------------
\* the text genFileBody writes for member m alone, without the closing blank line
C5_Text(m) == SubSeq(genFileBody(<<m>>, BodyGenerator(bodyIn)).lines, 1, Len(genFileBody(<<m>>, BodyGenerator(bodyIn)).lines) - 1)
C5_Piled(a, b) == (a.kind = "Alias" /\ b.kind = "Alias") \/ (a.kind = "Const" /\ b.kind = "Const")

\* C5: the body is the members' texts in order, with a blank line between two
\* neighbours iff they are not both Alias or both Const, none before the
\* first, and exactly one after the last (also for no member at all).
C5_BlankLines ==
    (pc = "body-done" /\ bodyOut.fatal = "") =>
        bodyOut.lines = ConcatAll([i \in 1..Len(bodyIn) |-> (IF i > 1 /\ ~C5_Piled(bodyIn[i - 1], bodyIn[i]) THEN <<"">> ELSE <<>>) \o C5_Text(bodyIn[i])]) \o <<"">>

\* [Const, Const, Alias, Const] has been emitted: no blank line between the
\* first two, one before the Alias and one before the last Const
C5_Witness ==
    /\ pc = "body-done" /\ bodyOut.fatal = ""
    /\ [i \in 1..Len(bodyIn) |-> bodyIn[i].kind] = <<"Const", "Const", "Alias", "Const">>
    /\ Len(bodyOut.lines) = 7 /\ bodyOut.lines[3] = "" /\ bodyOut.lines[5] = "" /\ bodyOut.lines[7] = ""


\* ---- C6 ----------------------------------------------------------------
\* the types GenTypeName is called on while member m is emitted: an Alias's
\* target, a Const's type, the non-Out fields of a Struct, and every field of
\* a Resource (its class restates them all)
C6_MappedTypes(m) ==
    CASE m.kind = "Alias" -> {m.Target}
      [] m.kind = "Const" -> {m.Type}
      [] m.kind = "Struct" -> {Flattened(m)[p].fld.type : p \in {q \in DOMAIN Flattened(m) : ~Flattened(m)[q].opt.Out}}
      [] m.kind = "Resource" -> {Flattened(m)[p].fld.type : p \in DOMAIN Flattened(m)}
      [] OTHER -> {}

\* the same-package names mapped in file relpath whose home file is another file
C6_Expected(relpath) == {n \in UNION {LocalNames(t) : t \in UNION {C6_MappedTypes(m) : m \in Range(MembersOf(pkg.Files[relpath]))}} : pkg.MemberFiles[n] # relpath}

\* the output file of relpath, and whether it has been written completely
OutputOf(relpath) == Render(TsFile(Join(OutDir, relpath)))
Written(relpath) == OutputOf(relpath) \in DOMAIN fs.files /\ fs.files[OutputOf(relpath)].complete

\* EmitFile has just returned for relpath, having written its output completely
JustWritten(relpath) == pc = "range" /\ frame.path = Join(OutDir, relpath) /\ Written(relpath)

\* the module names a local import between two files of the package can carry
C6_Modules == {Render(ImportName(TsFile(Join(OutDir, f1)), "x", [Currpkg |-> [MemberFiles |-> [x \in {"x"} |-> f2]]])) : f1, f2 \in FilePaths}

\* the indices of the lines among lines that import name n from any module
C6_ImportsOf(lines, n) == {i \in DOMAIN lines : lines[i] \in {"import {" \o n \o "} from \"" \o imp \o "\";" : imp \in C6_Modules}}

\* C6: when EmitFile returns with its file written, the file holds exactly one
\* local import line for each distinct same-package name mapped in its body
\* whose home file is another file (and that line names the home file's
\* module), and none for any other name.
C6_LocalImports ==
    \A relpath \in DOMAIN pkg.Files : JustWritten(relpath) =>
        LET lines == fs.files[OutputOf(relpath)].lines
            expected == C6_Expected(relpath)
        IN  \A n \in GenPool :
                IF n \in expected
                THEN /\ Cardinality(C6_ImportsOf(lines, n)) = 1
                     /\ \A i \in C6_ImportsOf(lines, n) : lines[i] = LocalImportLine(n, ImportName(TsFile(Join(OutDir, relpath)), n, [Currpkg |-> pkg]))
                ELSE C6_ImportsOf(lines, n) = {}

\* a written file whose Resource maps Id three times (two fields, one of them
\* also in the Args interface) from another file, and Kind from its own file
C6_Witness ==
    \E relpath \in DOMAIN pkg.Files :
        /\ JustWritten(relpath)
        /\ "Bucket" \in Range(pkg.Files[relpath].MemberKeys)
        /\ "Kind" \in Range(pkg.Files[relpath].MemberKeys)
        /\ "Id" \in DOMAIN pkg.MemberFiles /\ pkg.MemberFiles["Id"] # relpath
        /\ Cardinality(C6_ImportsOf(fs.files[OutputOf(relpath)].lines, "Id")) = 1

\* ---- C7 ----------------------------------------------------------------
\* C7: between EmitFile calls and after Generate, Fhadres, Ffimp and Flimp
\* hold what they held before the call (their values from construction); and
\* whenever EmitFile returns with its file written, in whatever order the
\* files are visited, the header depends on that file alone: the base-library
\* import is there iff the file holds a Resource, and a local import is there
\* only for a name mapped in that file.
C7_NoStateAcrossFiles ==
    /\ pc \in {"range", "returned"} => pg.Fhadres = NewPackGenerator.Fhadres /\ pg.Ffimp = NewPackGenerator.Ffimp /\ pg.Flimp = NewPackGenerator.Flimp
    /\ \A relpath \in DOMAIN pkg.Files : JustWritten(relpath) =>
          /\ (CoconutImport \in Range(fs.files[OutputOf(relpath)].lines)) <=> (\E m \in Range(MembersOf(pkg.Files[relpath])) : m.kind = "Resource")
          /\ \A n \in GenPool \ C6_Expected(relpath) : C6_ImportsOf(fs.files[OutputOf(relpath)].lines, n) = {}

\* both files are written; the one emitted last holds no Resource and imports
\* nothing, the one emitted before it holds a Resource and has local imports
C7_Witness ==
    /\ pc = "range" /\ todo = {}
    /\ \A relpath \in FilePaths : Written(relpath)
    /\ \E last, first \in FilePaths :
          /\ frame.path = Join(OutDir, last) /\ first # last
          /\ \A m \in Range(MembersOf(pkg.Files[last])) : m.kind # "Resource"
          /\ pkg.Files[last].MemberKeys # <<>>
          /\ CoconutImport \notin Range(fs.files[OutputOf(last)].lines)
          /\ CoconutImport \in Range(fs.files[OutputOf(first)].lines)
          /\ C6_Expected(first) # {} /\ C6_Expected(last) = {}

\* ---- C8 ----------------------------------------------------------------
\* C8 (as claimed): once a foreign reference has been recorded while a file's
\* body was generated, emitFileContents ends in the fatal "not yet supported"
\* error.
C8_ForeignAlwaysFatal ==
    [][(pc = "contents" /\ pg.Ffimp.m # EmptyMap) => (pc' = "panicking" /\ frame'.fatal = ForeignFatal)]_vars

\* C8 (amended): while a foreign reference is recorded for the file being
\* emitted, no step completes a write of any file; emitFileContents then ends
\* in the fatal "not yet supported" error unless opening the output file
\* fails first, in which case the open error is what it returns and nothing
\* is written; without a recorded foreign reference emitFileContents never
\* raises that error.
C8_ForeignNeverWritten ==
    [][/\ pg.Ffimp.m # EmptyMap => \A f \in DOMAIN fs'.files : fs'.files[f].complete => (f \in DOMAIN fs.files /\ fs.files[f].complete)
       /\ (pc = "contents" /\ pg.Ffimp.m # EmptyMap) =>
             \/ pc' = "panicking" /\ frame'.fatal = ForeignFatal
             \/ pc' = "range" /\ fs' = fs /\ [op |-> "open", path |-> Render(TsFile(frame.path))] \in errs' \ errs
       /\ (pc = "contents" /\ pg.Ffimp.m = EmptyMap) => ~(pc' = "panicking")]_vars

\* header assembly has failed on a foreign import: the file was opened and truncated, never written
C8_Witness ==
    /\ pc = "aborted" /\ result = ForeignFatal
    /\ Render(TsFile(frame.path)) \in DOMAIN fs.files
    /\ ~fs.files[Render(TsFile(frame.path))].complete

\* ---- C9 ----------------------------------------------------------------
\* C9: forEachField on a TypeMember with L leaf fields and L options invokes
\* the action L times, on the leaves depth-first and left to right, the p-th
\* invocation with the p-th leaf and the p-th option, and returns L.
C9_Flattening ==
    pc = "flat-done" =>
        /\ ~flatOut.panic
        /\ flatOut.n = Len(Leaves(flatIn.struct))
        /\ Len(flatOut.calls) = Len(Leaves(flatIn.struct))
        /\ \A p \in DOMAIN flatOut.calls : flatOut.calls[p].fld = Leaves(flatIn.struct)[p] /\ flatOut.calls[p].opt = flatIn.opts[p]

\* a walk has finished over a struct that embeds a struct that embeds a
\* struct with a leaf, with more fields declared after the embedding
C9_Witness ==
    /\ pc = "flat-done" /\ flatOut.n = Len(flatIn.opts) /\ flatOut.n >= 2
    /\ \E i \in DOMAIN flatIn.struct :
          /\ flatIn.struct[i].anon /\ i < Len(flatIn.struct)
          /\ \E j \in DOMAIN flatIn.struct[i].embedded :
                flatIn.struct[i].embedded[j].anon /\ flatIn.struct[i].embedded[j].embedded # <<>>

\* ---- C10 ---------------------------------------------------------------
\* g.res[o][r], 0 for a missing entry
RefCount(o, r) == IF o \in DOMAIN res /\ r \in DOMAIN res[o] THEN res[o][r] ELSE 0

\* C10: no contract of the listener fails, every allocated resource is
\* registered, and for every registered resource o and resource r the
\* ref-count of r in o's set is the number of o's properties holding r (so
\* it is never negative).
C10_RefCounts ==
    /\ failed = ""
    /\ \A o \in DOMAIN heap : IsResource(o) =>
          /\ o \in DOMAIN res
          /\ \A r \in ResourceObjects : RefCount(o, r) = Cardinality({p \in Props : heap[o][p] = r}) /\ RefCount(o, r) >= 0

\* a resource holds another in both properties (count 2) and has dropped
\* every reference to itself again (an entry with count 0)
C10_Witness ==
    /\ "r1" \in DOMAIN res /\ "r2" \in DOMAIN res["r1"] /\ res["r1"]["r2"] = 2
    /\ "r1" \in DOMAIN res["r1"] /\ res["r1"]["r1"] = 0

====
